---- MODULE Spec2Model ----
(***************************************************************************)
(* Model of the two Lambda handlers of the study-assistant stack:          *)
(*   lambda_functions/ingest_study_material.py  (S3 upload -> index)       *)
(*   lambda_functions/chatbot_query.py          (question -> answer)       *)
(*                                                                         *)
(* A Python str is a finite sequence of pieces (Seq(STRING)): single       *)
(* characters for object keys and ids, words and separators for texts.     *)
(* The external services (S3, Bedrock, OpenSearch) are the environment:    *)
(* each call draws its outcome from the set of outcomes the service can    *)
(* produce.                                                                *)
(***************************************************************************)
EXTENDS Integers, Sequences, FiniteSets, TLC

VARIABLES
    \* ---- sanitize_id / index_embedding called on an arbitrary id
    s_pc, s_id, s_out,
    \* ---- the OpenSearch index "cert-embeddings": a set of documents
    index,
    \* ---- ingest_study_material.handler
    i_pc, i_event, i_pos, key, tmp_path, text, i_embedding, i_result, i_error,
    i_log, lastPut, firstId, writer,
    \* ---- chatbot_query.handler
    q_pc, q_event, body, query, q_embedding, chunks, context_str, answer,
    response, q_error, calls, embedArg, searchArg, genArgs

s_vars == <<s_pc, s_id, s_out>>
i_vars == <<i_pc, i_event, i_pos, key, tmp_path, text, i_embedding, i_result,
            i_error, i_log, lastPut, firstId, writer>>
q_vars == <<q_pc, q_event, body, query, q_embedding, chunks, context_str, answer,
            response, q_error, calls, embedArg, searchArg, genArgs>>
vars == <<s_vars, index, i_vars, q_vars>>

-----------------------------------------------------------------------------
(* Bounds of the model *)

\* longest id string handed to sanitize_id
MaxStrLen == 4
\* most records in one S3 notification batch
MaxRecords == 2
\* most hits the search service returns in the model (the request asks for 5)
MaxHits == 2

-----------------------------------------------------------------------------
(* Python str helpers *)

\* all sequences over S of length 0..n
RECURSIVE SeqsUpTo(_, _)
SeqsUpTo(S, n) ==
    IF n = 0 THEN {<<>>}
    ELSE LET shorter == SeqsUpTo(S, n - 1)
         IN  shorter \cup {Append(s, c) : s \in {t \in shorter : Len(t) = n - 1}, c \in S}

Range(s) == {s[i] : i \in 1..Len(s)}

\* str.startswith
StartsWith(s, pre) ==
    /\ Len(pre) <= Len(s)
    /\ SubSeq(s, 1, Len(pre)) = pre

\* str.endswith
EndsWith(s, suf) ==
    /\ Len(suf) <= Len(s)
    /\ SubSeq(s, Len(s) - Len(suf) + 1, Len(s)) = suf

\* str.replace(old, new) limited to the first occurrence (a mutant of Replace)
RECURSIVE ReplaceFirst(_, _, _)
ReplaceFirst(s, old, new) ==
    IF s = <<>> THEN <<>>
    ELSE IF StartsWith(s, old)
         THEN new \o SubSeq(s, Len(old) + 1, Len(s))
         ELSE <<Head(s)>> \o ReplaceFirst(Tail(s), old, new)

\* str.replace(old, new) for a non-empty old: every non-overlapping occurrence,
\* scanning left to right
RECURSIVE Replace(_, _, _)
Replace(s, old, new) ==
    IF s = <<>> THEN <<>>
    ELSE IF StartsWith(s, old)
         THEN new \o Replace(SubSeq(s, Len(old) + 1, Len(s)), old, new)
         ELSE <<Head(s)>> \o Replace(Tail(s), old, new)

\* sep.join(parts)
RECURSIVE Join(_, _)
Join(sep, parts) ==
    IF parts = <<>> THEN <<>>
    ELSE IF Len(parts) = 1 THEN parts[1]
         ELSE parts[1] \o sep \o Join(sep, Tail(parts))

\* os.path.basename: what follows the last "/"
RECURSIVE basename(_)
basename(p) ==
    IF p = <<>> THEN <<>>
    ELSE IF p[Len(p)] = "/" THEN <<>>
         ELSE Append(basename(SubSeq(p, 1, Len(p) - 1)), p[Len(p)])

\* os.path.join(dir, name) for a relative name
path_join(dir, name) == dir \o <<"/">> \o name

-----------------------------------------------------------------------------
(* ingest_study_material.py: sanitize_id and index_embedding *)

sanitize_id_first_only(id_) == ReplaceFirst(id_, <<"/">>, <<"_">>)

sanitize_id(id_) == Replace(id_, <<"/">>, <<"_">>)

\* An optional value: Python None or a list of floats
NoneVec == [none |-> TRUE, v |-> <<>>]
SomeVec(v) == [none |-> FALSE, v |-> v]

Ids(idx) == {d.id : d \in idx}
DocsWithId(idx, id) == {d \in idx : d.id = id}

\* PUT /{index}/_doc/{id} that adds the document beside an existing one
\* (a mutant of PutDoc)
PutDocAppend(idx, id, source) ==
    idx \cup {[id |-> id, vector |-> source.vector, text |-> source.text]}

\* PUT /{index}/_doc/{id}: create the document or replace the one stored under id
PutDoc(idx, id, source) ==
    {d \in idx : d.id # id}
        \cup {[id |-> id, vector |-> source.vector, text |-> source.text]}

\* the document id in the URL index_embedding builds
index_embedding_raw_id(id_) == id_

index_embedding_id(id_) == sanitize_id(id_)

\* the JSON document index_embedding sends
index_embedding_data(embedding_, text_) == [vector |-> embedding_, text |-> text_]

\* the index after index_embedding's PUT was accepted
index_embedding(idx, id_, embedding_, text_) ==
    PutDoc(idx, index_embedding_id(id_), index_embedding_data(embedding_, text_))

-----------------------------------------------------------------------------
(* sanitize_id and index_embedding on an arbitrary id string *)

IdChars == {"a", "/", "_"}

\* "folder/file.pdf", the id of tests/unit/test_ingest_utils.py
FolderFilePdf ==
    <<"f", "o", "l", "d", "e", "r", "/", "f", "i", "l", "e", ".", "p", "d", "f">>

IdStrings == SeqsUpTo(IdChars, MaxStrLen) \cup {FolderFilePdf}

Vector01 == SomeVec(<<1>>)

s_Init ==
    /\ s_pc = "idle"
    /\ s_id = <<>>
    /\ s_out = <<>>

\* sanitize_id(id_) is called
s_sanitize ==
    /\ s_pc = "idle"
    /\ \E id_ \in IdStrings :
          /\ s_id' = id_
          /\ s_out' = sanitize_id(id_)
    /\ s_pc' = "sanitized"
    /\ UNCHANGED index
    /\ UNCHANGED <<i_vars, q_vars>>

\* index_embedding(id_, embedding, text) is called and its PUT is accepted
s_index ==
    /\ s_pc = "sanitized"
    /\ index' = index_embedding(index, s_id, Vector01, <<"text">>)
    /\ s_pc' = "indexed"
    /\ UNCHANGED <<s_id, s_out>>
    /\ UNCHANGED <<i_vars, q_vars>>

-----------------------------------------------------------------------------
(* ingest_study_material.py: the environment of the ingestion handler *)

\* object keys of the bucket
KeySlash == <<"a", "/", "b", ".", "p", "d", "f">>
KeyUnder == <<"a", "_", "b", ".", "p", "d", "f">>
KeyDocx  == <<"c", ".", "d", "o", "c", "x">>
KeyTxt   == <<"d", ".", "t", "x", "t">>
Keys == {KeySlash, KeyUnder, KeyDocx, KeyTxt}

\* an S3 notification record
Record(k) == [bucket |-> "b", key |-> k]

\* the events S3 may deliver: {} (no "Records") or {"Records": [...]}
IngestEvents ==
    {[hasRecords |-> FALSE, Records |-> <<>>]}
        \cup {[hasRecords |-> TRUE, Records |-> rs] :
                rs \in SeqsUpTo({Record(k) : k \in Keys}, MaxRecords)}

\* a handler that looks at the first record only (a mutant of event_get_Records)
event_get_Records_first(ev) ==
    IF ev.hasRecords /\ ev.Records # <<>> THEN <<ev.Records[1]>> ELSE <<>>

\* event.get("Records", [])
event_get_Records(ev) == IF ev.hasRecords THEN ev.Records ELSE <<>>

\* what a downloaded file holds: the texts of its pages (PDF) or paragraphs
\* (DOCX), in order; an empty page text is ""
Documents == {<<>>, << <<>> >>, << <<"w">> >>}

\* tempfile.TemporaryDirectory()
TmpDir == <<"/", "t", "m", "p">>

ExtPdf == <<".", "p", "d", "f">>
ExtDocx == <<".", "d", "o", "c", "x">>

\* extract_text(file_path) on a file holding `pages`
extract_text(file_path, pages) ==
    IF EndsWith(file_path, ExtPdf)
    THEN [raises |-> FALSE, text |-> Join(<<"\n">>, pages)]
    ELSE IF EndsWith(file_path, ExtDocx)
         THEN [raises |-> FALSE, text |-> Join(<<"\n">>, pages)]
         ELSE [raises |-> TRUE, text |-> <<>>]

\* what bedrock.invoke_model(modelId="amazon.titan-embed-text-v1") may do: raise,
\* or answer with a payload that holds "embedding" or does not
EmbedResponses ==
    { [raises |-> TRUE,  has |-> FALSE, embedding |-> <<>>],
      [raises |-> FALSE, has |-> FALSE, embedding |-> <<>>],
      [raises |-> FALSE, has |-> TRUE,  embedding |-> <<1>>] }

\* payload.get("embedding")
embed_text(resp) == IF resp.has THEN SomeVec(resp.embedding) ELSE NoneVec

NoPut == [valid |-> FALSE, key |-> <<>>, id |-> <<>>, vector |-> NoneVec,
          text |-> <<>>, idsBefore |-> {}, accepted |-> FALSE]

LogEntry(op, n) == [op |-> op, rec |-> n]

-----------------------------------------------------------------------------
(* ingest_study_material.handler *)

i_Init ==
    /\ i_pc = "idle"
    /\ i_event = [hasRecords |-> FALSE, Records |-> <<>>]
    /\ i_pos = 0
    /\ key = <<>>
    /\ tmp_path = <<>>
    /\ text = <<>>
    /\ i_embedding = NoneVec
    /\ i_result = [status |-> "", records |-> 0]
    /\ i_error = ""
    /\ i_log = <<>>
    /\ lastPut = NoPut
    /\ firstId = {}
    /\ writer = {}

\* the Lambda service invokes handler(event, context)
i_invoke ==
    /\ i_pc = "idle"
    /\ \E ev \in IngestEvents : i_event' = ev
    /\ i_pc' = "for"
    /\ UNCHANGED <<index, i_pos, key, tmp_path, text, i_embedding, i_result,
                   i_error, i_log, lastPut, firstId, writer>>
    /\ UNCHANGED <<s_vars, q_vars>>

\* the invocation is over (handler returned or raised): its locals are gone,
\* the index stays as it is
i_finish ==
    /\ i_pc \in {"returned", "raised"}
    /\ i_pc' = "idle"
    /\ i_event' = [hasRecords |-> FALSE, Records |-> <<>>]
    /\ i_pos' = 0
    /\ key' = <<>>
    /\ tmp_path' = <<>>
    /\ text' = <<>>
    /\ i_embedding' = NoneVec
    /\ i_result' = [status |-> "", records |-> 0]
    /\ i_error' = ""
    /\ i_log' = <<>>
    /\ lastPut' = NoPut
    /\ UNCHANGED <<index, firstId, writer>>
    /\ UNCHANGED <<s_vars, q_vars>>

\* for record in event.get("Records", []): the next record; bucket, key, tmp_path
i_for ==
    /\ i_pc = "for"
    /\ i_pos < Len(event_get_Records(i_event))
    /\ LET record == event_get_Records(i_event)[i_pos + 1]
       IN  /\ key' = record.key
           /\ tmp_path' = path_join(TmpDir, basename(record.key))
    /\ i_pos' = i_pos + 1
    /\ i_pc' = "download"
    /\ UNCHANGED <<index, i_event, text, i_embedding, i_result, i_error, i_log,
                   lastPut, firstId, writer>>
    /\ UNCHANGED <<s_vars, q_vars>>

\* the loop is exhausted: return {"status": "processed", "records": len(...)}
i_return ==
    /\ i_pc = "for"
    /\ i_pos >= Len(event_get_Records(i_event))
    /\ i_result' = [status |-> "processed",
                    records |-> Len(event_get_Records(i_event))]
    /\ i_pc' = "returned"
    /\ UNCHANGED <<index, i_event, i_pos, key, tmp_path, text, i_embedding,
                   i_error, i_log, lastPut, firstId, writer>>
    /\ UNCHANGED <<s_vars, q_vars>>

\* s3_client.download_file(bucket, key, tmp_path)
i_download ==
    /\ i_pc = "download"
    /\ \E ok \in BOOLEAN :
          IF ok
          THEN /\ i_log' = Append(i_log, LogEntry("download", i_pos))
               /\ i_pc' = "extract"
               /\ UNCHANGED i_error
          ELSE /\ i_error' = "ClientError"
               /\ i_pc' = "raised"
               /\ UNCHANGED i_log
    /\ UNCHANGED <<index, i_event, i_pos, key, tmp_path, text, i_embedding,
                   i_result, lastPut, firstId, writer>>
    /\ UNCHANGED <<s_vars, q_vars>>

\* text = extract_text(tmp_path); its ValueError is not caught
i_extract ==
    /\ i_pc = "extract"
    /\ \E pages \in Documents :
          LET r == extract_text(tmp_path, pages)
          IN  IF r.raises
              THEN /\ i_error' = "ValueError: Unsupported file type"
                   /\ i_pc' = "raised"
                   /\ UNCHANGED <<text, i_log>>
              ELSE /\ text' = r.text
                   /\ i_log' = Append(i_log, LogEntry("extract", i_pos))
                   /\ i_pc' = "embed"
                   /\ UNCHANGED i_error
    /\ UNCHANGED <<index, i_event, i_pos, key, tmp_path, i_embedding, i_result,
                   lastPut, firstId, writer>>
    /\ UNCHANGED <<s_vars, q_vars>>

\* embedding = embed_text(text)
i_embed ==
    /\ i_pc = "embed"
    /\ \E resp \in EmbedResponses :
          IF resp.raises
          THEN /\ i_error' = "BedrockError"
               /\ i_pc' = "raised"
               /\ UNCHANGED <<i_embedding, i_log>>
          ELSE /\ i_embedding' = embed_text(resp)
               /\ i_log' = Append(i_log, LogEntry("embed", i_pos))
               /\ i_pc' = "index"
               /\ UNCHANGED i_error
    /\ UNCHANGED <<index, i_event, i_pos, key, tmp_path, text, i_result,
                   lastPut, firstId, writer>>
    /\ UNCHANGED <<s_vars, q_vars>>

\* index_embedding(key, embedding, text): requests.put raises (no connection),
\* or returns a response whose status the code does not look at: the service
\* stored the document ("accepted") or refused it ("refused")
i_index ==
    /\ i_pc = "index"
    /\ \E outcome \in {"accepted", "refused", "raises"} :
          IF outcome = "raises"
          THEN /\ i_error' = "ConnectionError"
               /\ i_pc' = "raised"
               /\ UNCHANGED <<index, i_log, lastPut, firstId, writer>>
          ELSE /\ index' = IF outcome = "accepted"
                           THEN index_embedding(index, key, i_embedding, text)
                           ELSE index
               /\ lastPut' = [valid |-> TRUE, key |-> key,
                              id |-> index_embedding_id(key),
                              vector |-> index_embedding_data(i_embedding, text).vector,
                              text |-> index_embedding_data(i_embedding, text).text,
                              idsBefore |-> Ids(index),
                              accepted |-> outcome = "accepted"]
               /\ firstId' = IF outcome = "accepted" /\ ~(\E p \in firstId : p[1] = key)
                             THEN firstId \cup {<<key, index_embedding_id(key)>>}
                             ELSE firstId
               /\ writer' = IF outcome = "accepted"
                            THEN {p \in writer : p[1] # index_embedding_id(key)}
                                     \cup {<<index_embedding_id(key), key>>}
                            ELSE writer
               /\ i_log' = Append(i_log, LogEntry("put", i_pos))
               /\ i_pc' = "for"
               /\ UNCHANGED i_error
    /\ UNCHANGED <<i_event, i_pos, key, tmp_path, text, i_embedding, i_result>>
    /\ UNCHANGED <<s_vars, q_vars>>


-----------------------------------------------------------------------------
(* JSON text and values (json.loads, json.dumps) *)

\* A JSON text is a sequence of lexical tokens; white space is not a token.
Tok(t, v) == [t |-> t, v |-> v]
LBrace == Tok("punct", <<"{">>)
RBrace == Tok("punct", <<"}">>)
LBrack == Tok("punct", <<"[">>)
RBrack == Tok("punct", <<"]">>)
Colon == Tok("punct", <<":">>)
Comma == Tok("punct", <<",">>)
TStr(s) == Tok("str", s)
TNum(s) == Tok("num", s)
TLit(s) == Tok("lit", s)
\* characters that start no JSON token
TJunk(s) == Tok("junk", s)

\* A JSON value; Python None is JNull. The members of an object and the
\* elements of a list are scalars in this model.
JNull == [kind |-> "null", s |-> <<>>, items |-> <<>>]
JStr(s) == [kind |-> "str", s |-> s, items |-> <<>>]
JNum(s) == [kind |-> "num", s |-> s, items |-> <<>>]
JBool(s) == [kind |-> "bool", s |-> s, items |-> <<>>]
JArr(items) == [kind |-> "arr", s |-> <<>>, items |-> items]
JObj(items) == [kind |-> "obj", s |-> <<>>, items |-> items]
Member(k, v) == [key |-> k, val |-> v]

IsScalarTok(tok) ==
    \/ tok.t \in {"str", "num"}
    \/ tok.t = "lit" /\ tok.v \in {<<"null">>, <<"true">>, <<"false">>}

ScalarOf(tok) ==
    IF tok.t = "str" THEN JStr(tok.v)
    ELSE IF tok.t = "num" THEN JNum(tok.v)
    ELSE IF tok.v = <<"null">> THEN JNull
    ELSE JBool(tok.v)

Failed == [ok |-> FALSE, val |-> JNull]
Parsed(v) == [ok |-> TRUE, val |-> v]

\* elements of a list after "[": scalar ("," scalar)*
RECURSIVE ParseElements(_, _)
ParseElements(toks, acc) ==
    IF toks = <<>> \/ ~IsScalarTok(toks[1]) THEN [ok |-> FALSE, items |-> <<>>]
    ELSE LET acc1 == Append(acc, Member(<<>>, ScalarOf(toks[1])))
         IN  IF Len(toks) = 1 THEN [ok |-> TRUE, items |-> acc1]
             ELSE IF toks[2] = Comma THEN ParseElements(SubSeq(toks, 3, Len(toks)), acc1)
             ELSE [ok |-> FALSE, items |-> <<>>]

\* members of an object after "{": string ":" scalar ("," string ":" scalar)*
RECURSIVE ParseMembers(_, _)
ParseMembers(toks, acc) ==
    IF Len(toks) < 3 \/ toks[1].t # "str" \/ toks[2] # Colon \/ ~IsScalarTok(toks[3])
    THEN [ok |-> FALSE, items |-> <<>>]
    ELSE LET acc1 == Append(acc, Member(toks[1].v, ScalarOf(toks[3])))
         IN  IF Len(toks) = 3 THEN [ok |-> TRUE, items |-> acc1]
             ELSE IF toks[4] = Comma THEN ParseMembers(SubSeq(toks, 5, Len(toks)), acc1)
             ELSE [ok |-> FALSE, items |-> <<>>]

\* json.loads(text): ok = FALSE stands for json.JSONDecodeError. The texts of
\* the model nest no list or object inside another and use none of the
\* literals NaN, Infinity, -Infinity, which json.loads accepts as numbers.
json_loads(toks) ==
    IF toks = <<>> THEN Failed
    ELSE IF Len(toks) = 1
         THEN IF IsScalarTok(toks[1]) THEN Parsed(ScalarOf(toks[1])) ELSE Failed
    ELSE IF toks[1] = LBrack /\ toks[Len(toks)] = RBrack
         THEN IF Len(toks) = 2 THEN Parsed(JArr(<<>>))
              ELSE LET r == ParseElements(SubSeq(toks, 2, Len(toks) - 1), <<>>)
                   IN  IF r.ok THEN Parsed(JArr(r.items)) ELSE Failed
    ELSE IF toks[1] = LBrace /\ toks[Len(toks)] = RBrace
         THEN IF Len(toks) = 2 THEN Parsed(JObj(<<>>))
              ELSE LET r == ParseMembers(SubSeq(toks, 2, Len(toks) - 1), <<>>)
                   IN  IF r.ok THEN Parsed(JObj(r.items)) ELSE Failed
    ELSE Failed

\* json.dumps of a scalar
DumpScalar(v) ==
    IF v.kind = "str" THEN TStr(v.s)
    ELSE IF v.kind = "num" THEN TNum(v.s)
    ELSE IF v.kind = "null" THEN TLit(<<"null">>)
    ELSE TLit(v.s)

RECURSIVE DumpMembers(_)
DumpMembers(items) ==
    IF items = <<>> THEN <<>>
    ELSE <<TStr(items[1].key), Colon, DumpScalar(items[1].val)>>
           \o (IF Len(items) = 1 THEN <<>> ELSE <<Comma>> \o DumpMembers(Tail(items)))

\* json.dumps of a dict with scalar values
json_dumps(obj) == <<LBrace>> \o DumpMembers(obj.items) \o <<RBrace>>

\* dict.get(k): the value of the last member named k, None without one
RECURSIVE dict_get(_, _)
dict_get(items, k) ==
    IF items = <<>> THEN JNull
    ELSE IF items[Len(items)].key = k THEN items[Len(items)].val
    ELSE dict_get(SubSeq(items, 1, Len(items) - 1), k)

\* bool(v)
Truthy(v) ==
    IF v.kind = "str" THEN v.s # <<>>
    ELSE IF v.kind = "num" THEN v.s # <<"0">>
    ELSE IF v.kind = "bool" THEN v.s = <<"true">>
    ELSE IF v.kind = "null" THEN FALSE
    ELSE v.items # <<>>

\* str(v) inside an f-string, for a str or a number
Format(v) == v.s


-----------------------------------------------------------------------------
(* chatbot_query.py: the environment of the query handler *)

Q == <<"query">>

\* request bodies, as API Gateway hands them over
BodyNotJson    == <<TJunk(<<"not">>), TJunk(<<"json">>)>>
BodyEmptyText  == <<>>
BodyTruncated  == <<LBrace, TStr(Q), Colon, TStr(<<"hi">>)>>
BodyEmptyObj   == <<LBrace, RBrace>>
BodyOther      == <<LBrace, TStr(<<"other">>), Colon, TStr(<<"hi">>), RBrace>>
BodyQueryHi    == <<LBrace, TStr(Q), Colon, TStr(<<"hi">>), RBrace>>
BodyTwoMembers == <<LBrace, TStr(<<"other">>), Colon, TNum(<<"0">>), Comma,
                    TStr(Q), Colon, TStr(<<"why">>), RBrace>>
BodyQueryNum   == <<LBrace, TStr(Q), Colon, TNum(<<"5">>), RBrace>>
BodyQueryEmpty == <<LBrace, TStr(Q), Colon, TStr(<<>>), RBrace>>
BodyQueryNull  == <<LBrace, TStr(Q), Colon, TLit(<<"null">>), RBrace>>
BodyList       == <<LBrack, TStr(Q), RBrack>>
BodyString     == <<TStr(Q)>>
BodyNumber     == <<TNum(<<"0">>)>>
BodyNull       == <<TLit(<<"null">>)>>

Bodies ==
    { BodyNotJson, BodyEmptyText, BodyTruncated, BodyEmptyObj, BodyOther,
      BodyQueryHi, BodyTwoMembers, BodyQueryNum, BodyQueryEmpty, BodyQueryNull,
      BodyList, BodyString, BodyNumber, BodyNull }

\* the events: no "body" key, "body": None, or "body": a text
QueryEvents ==
    { [hasBody |-> FALSE, isNone |-> FALSE, body |-> <<>>],
      [hasBody |-> TRUE,  isNone |-> TRUE,  body |-> <<>>] }
        \cup {[hasBody |-> TRUE, isNone |-> FALSE, body |-> b] : b \in Bodies}

\* event.get("body", "{}")
event_get_body(ev) ==
    IF ev.hasBody THEN [isNone |-> ev.isNone, text |-> ev.body]
    ELSE [isNone |-> FALSE, text |-> <<LBrace, RBrace>>]

\* "size" and "k" of the search request
SearchSize == 5
\* "max_tokens_to_sample" of the generation request
MaxTokensToSample == 200

\* one hit of the search response: its _source.text, or none
Hits == { [hasText |-> FALSE, text |-> <<>>],
          [hasText |-> TRUE,  text |-> <<"ctx">>],
          [hasText |-> TRUE,  text |-> <<"w">>] }

Min(a, b) == IF a <= b THEN a ELSE b

\* what the search request may come to: an error (requests.get or
\* raise_for_status raises) or at most "size" hits in rank order
SearchResponses ==
    {[raises |-> TRUE, hits |-> <<>>]}
        \cup {[raises |-> FALSE, hits |-> h] :
                h \in SeqsUpTo(Hits, Min(MaxHits, SearchSize))}

\* what bedrock.invoke_model(modelId="anthropic.claude-v2") may do
GenerateResponses ==
    { [raises |-> TRUE,  has |-> FALSE, completion |-> <<>>],
      [raises |-> FALSE, has |-> FALSE, completion |-> <<>>],
      [raises |-> FALSE, has |-> TRUE,  completion |-> <<"answer">>] }

\* chatbot_query.embed_text: payload.get("embedding")
chatbot_embed_text(resp) == IF resp.has THEN SomeVec(resp.embedding) ELSE NoneVec

\* the query search_embeddings sends
search_query(vector) ==
    [size |-> SearchSize, k |-> SearchSize, vector |-> vector, source |-> <<"text">>]

\* search_embeddings: hit.get("_source", {}).get("text", "") for each hit
search_embeddings(hits) ==
    [i \in 1..Len(hits) |-> IF hits[i].hasText THEN hits[i].text ELSE <<>>]

\* the prompt generate_answer builds
generate_prompt(question, context) ==
    <<"\n\n">> \o context \o <<"\n\n", "Question: ">> \o Format(question)
        \o <<"\n", "Answer:">>

\* the request body generate_answer sends
generate_body(question, context) ==
    [prompt |-> generate_prompt(question, context),
     max_tokens_to_sample |-> MaxTokensToSample]

\* generate_answer: payload.get("completion", "")
generate_answer(resp) == IF resp.has THEN resp.completion ELSE <<>>

-----------------------------------------------------------------------------
(* chatbot_query.handler *)

NoResponse == [statusCode |-> 0, hasHeaders |-> FALSE, body |-> <<>>]

\* {"statusCode": 400, "body": json.dumps({"error": msg})}
error_response(msg) ==
    [statusCode |-> 400, hasHeaders |-> FALSE,
     body |-> json_dumps(JObj(<<Member(<<"error">>, JStr(<<msg>>))>>))]

\* a success response that carries the context instead of the answer
\* (a mutant of success_response)
success_response_context(answer_, context_) ==
    [statusCode |-> 200, hasHeaders |-> TRUE,
     body |-> json_dumps(JObj(<<Member(<<"answer">>, JStr(context_))>>))]

\* {"statusCode": 200, "headers": {...}, "body": json.dumps({"answer": answer})}
success_response(answer_, context_) ==
    [statusCode |-> 200, hasHeaders |-> TRUE,
     body |-> json_dumps(JObj(<<Member(<<"answer">>, JStr(answer_))>>))]

\* the parse step that treats every body as JSON (a mutant of handler_parse)
handler_parse_lenient(b) ==
    IF b.isNone THEN [outcome |-> "TypeError", val |-> JNull]
    ELSE [outcome |-> "ok", val |-> json_loads(b.text).val]

\* try: body = json.loads(event.get("body", "{}")) except json.JSONDecodeError
handler_parse(b) ==
    IF b.isNone THEN [outcome |-> "TypeError", val |-> JNull]
    ELSE IF json_loads(b.text).ok
         THEN [outcome |-> "ok", val |-> json_loads(b.text).val]
         ELSE [outcome |-> "JSONDecodeError", val |-> JNull]

\* "\n\n".join(chunks)
handler_context(chunks_) == Join(<<"\n\n">>, chunks_)

q_Init ==
    /\ q_pc = "ReceiveRequest"
    /\ q_event = [hasBody |-> FALSE, isNone |-> FALSE, body |-> <<>>]
    /\ body = JNull
    /\ query = JNull
    /\ q_embedding = NoneVec
    /\ chunks = <<>>
    /\ context_str = <<>>
    /\ answer = <<>>
    /\ response = NoResponse
    /\ q_error = ""
    /\ calls = <<>>
    /\ embedArg = JNull
    /\ searchArg = search_query(NoneVec)
    /\ genArgs = [question |-> JNull, context |-> <<>>, body |-> generate_body(JNull, <<>>)]

\* handler(event, context) is invoked
q_receive ==
    /\ q_pc = "ReceiveRequest"
    /\ \E ev \in QueryEvents : q_event' = ev
    /\ q_pc' = "ParseBody"
    /\ UNCHANGED <<body, query, q_embedding, chunks, context_str, answer, response,
                   q_error, calls, embedArg, searchArg, genArgs>>
    /\ UNCHANGED <<s_vars, index, i_vars>>

\* the try block: json.loads of the body
q_parse ==
    /\ q_pc = "ParseBody"
    /\ LET r == handler_parse(event_get_body(q_event))
       IN  IF r.outcome = "ok"
           THEN /\ body' = r.val
                /\ q_pc' = "ValidateQuery"
                /\ UNCHANGED <<response, q_error>>
           ELSE IF r.outcome = "JSONDecodeError"
           THEN /\ response' = error_response("Invalid JSON")
                /\ q_pc' = "RespondError"
                /\ UNCHANGED <<body, q_error>>
           ELSE /\ q_error' = r.outcome
                /\ q_pc' = "raised"
                /\ UNCHANGED <<body, response>>
    /\ UNCHANGED <<q_event, query, q_embedding, chunks, context_str, answer, calls,
                   embedArg, searchArg, genArgs>>
    /\ UNCHANGED <<s_vars, index, i_vars>>

\* query = body.get("query"); if not query: return 400
q_validate ==
    /\ q_pc = "ValidateQuery"
    /\ IF body.kind # "obj"
       THEN /\ q_error' = "AttributeError"
            /\ q_pc' = "raised"
            /\ UNCHANGED <<query, response>>
       ELSE /\ query' = dict_get(body.items, Q)
            /\ IF ~Truthy(dict_get(body.items, Q))
               THEN /\ response' = error_response("Missing query")
                    /\ q_pc' = "RespondError"
               ELSE /\ q_pc' = "Embed"
                    /\ UNCHANGED response
            /\ UNCHANGED q_error
    /\ UNCHANGED <<q_event, body, q_embedding, chunks, context_str, answer, calls,
                   embedArg, searchArg, genArgs>>
    /\ UNCHANGED <<s_vars, index, i_vars>>

\* embedding = embed_text(query)
q_embed ==
    /\ q_pc = "Embed"
    /\ calls' = Append(calls, "embed_text")
    /\ embedArg' = query
    /\ \E resp \in EmbedResponses :
          IF resp.raises
          THEN /\ q_error' = "BedrockError"
               /\ q_pc' = "raised"
               /\ UNCHANGED q_embedding
          ELSE /\ q_embedding' = chatbot_embed_text(resp)
               /\ q_pc' = "Search"
               /\ UNCHANGED q_error
    /\ UNCHANGED <<q_event, body, query, chunks, context_str, answer, response,
                   searchArg, genArgs>>
    /\ UNCHANGED <<s_vars, index, i_vars>>

\* chunks = search_embeddings(embedding)
q_search ==
    /\ q_pc = "Search"
    /\ calls' = Append(calls, "search_embeddings")
    /\ searchArg' = search_query(q_embedding)
    /\ \E resp \in SearchResponses :
          IF resp.raises
          THEN /\ q_error' = "HTTPError"
               /\ q_pc' = "raised"
               /\ UNCHANGED chunks
          ELSE /\ chunks' = search_embeddings(resp.hits)
               /\ q_pc' = "Assemble"
               /\ UNCHANGED q_error
    /\ UNCHANGED <<q_event, body, query, q_embedding, context_str, answer, response,
                   embedArg, genArgs>>
    /\ UNCHANGED <<s_vars, index, i_vars>>

\* context_str = "\n\n".join(chunks)
q_assemble ==
    /\ q_pc = "Assemble"
    /\ context_str' = handler_context(chunks)
    /\ q_pc' = "Generate"
    /\ UNCHANGED <<q_event, body, query, q_embedding, chunks, answer, response,
                   q_error, calls, embedArg, searchArg, genArgs>>
    /\ UNCHANGED <<s_vars, index, i_vars>>

\* answer = generate_answer(query, context_str)
q_generate ==
    /\ q_pc = "Generate"
    /\ calls' = Append(calls, "generate_answer")
    /\ genArgs' = [question |-> query, context |-> context_str,
                   body |-> generate_body(query, context_str)]
    /\ \E resp \in GenerateResponses :
          IF resp.raises
          THEN /\ q_error' = "BedrockError"
               /\ q_pc' = "raised"
               /\ UNCHANGED answer
          ELSE /\ answer' = generate_answer(resp)
               /\ q_pc' = "Respond"
               /\ UNCHANGED q_error
    /\ UNCHANGED <<q_event, body, query, q_embedding, chunks, context_str, response,
                   embedArg, searchArg>>
    /\ UNCHANGED <<s_vars, index, i_vars>>

\* return {"statusCode": 200, ...}
q_respond ==
    /\ q_pc = "Respond"
    /\ response' = success_response(answer, context_str)
    /\ q_pc' = "RespondSuccess"
    /\ UNCHANGED <<q_event, body, query, q_embedding, chunks, context_str, answer,
                   q_error, calls, embedArg, searchArg, genArgs>>
    /\ UNCHANGED <<s_vars, index, i_vars>>

-----------------------------------------------------------------------------
(* Specifications *)

Init == s_Init /\ index = {} /\ i_Init /\ q_Init

\* sanitize_id and index_embedding on id strings
NextSanitize ==
    \/ s_sanitize
    \/ s_index

SpecSanitize == Init /\ [][NextSanitize]_vars

\* the ingestion Lambda, invoked again and again on one index
NextIngest ==
    \/ i_invoke
    \/ i_finish
    \/ i_for
    \/ i_return
    \/ i_download
    \/ i_extract
    \/ i_embed
    \/ i_index

SpecIngest == Init /\ [][NextIngest]_vars

\* one invocation of the query Lambda
NextQuery ==
    \/ q_receive
    \/ q_parse
    \/ q_validate
    \/ q_embed
    \/ q_search
    \/ q_assemble
    \/ q_generate
    \/ q_respond

SpecQuery == Init /\ [][NextQuery]_vars


-----------------------------------------------------------------------------
(* Properties of the query handler (SpecQuery) *)

ErrorBody(msg) == <<LBrace, TStr(<<"error">>), Colon, TStr(<<msg>>), RBrace>>

\* the bodies json.loads rejects with JSONDecodeError
MalformedBodies == {BodyNotJson, BodyEmptyText, BodyTruncated}

\* the bodies that are JSON objects with a non-empty query, and their query
ValidQueryBodies == {BodyQueryHi, BodyTwoMembers, BodyQueryNum}
ExpectedQuery(b) ==
    IF b = BodyQueryHi THEN JStr(<<"hi">>)
    ELSE IF b = BodyTwoMembers THEN JStr(<<"why">>)
    ELSE JNum(<<"5">>)

q_Answered == q_pc \in {"RespondError", "RespondSuccess", "raised"}

\* C1: a request whose body is not well-formed JSON is answered with status 400
\* and body {"error": "Invalid JSON"}, and embed_text, search_embeddings and
\* generate_answer are never called for it.
C1_MalformedBodyIs400 ==
    (/\ q_pc \notin {"ReceiveRequest", "ParseBody"}
     /\ q_event.hasBody /\ ~q_event.isNone
     /\ q_event.body \in MalformedBodies)
        => /\ q_pc = "RespondError"
           /\ response.statusCode = 400
           /\ response.body = ErrorBody("Invalid JSON")
           /\ calls = <<>>

C1_Witness ==
    /\ q_pc = "RespondError"
    /\ q_event.hasBody /\ ~q_event.isNone
    /\ q_event.body = BodyNotJson
    /\ response.body = ErrorBody("Invalid JSON")

\* the events whose body is valid JSON without a query field: no body at all,
\* {}, an object with other fields, and JSON values that are not objects
NoQueryFieldEvents ==
    {[hasBody |-> FALSE, isNone |-> FALSE, body |-> <<>>]}
        \cup {[hasBody |-> TRUE, isNone |-> FALSE, body |-> b] :
                b \in {BodyEmptyObj, BodyOther, BodyList, BodyString, BodyNumber,
                       BodyNull}}

\* C2: a request whose body is valid JSON but carries no query field (also an
\* absent body, also a JSON value that is not an object) is answered with status
\* 400 and body {"error": "Missing query"}, with no upstream call.
C2_MissingQueryIs400 ==
    (/\ q_pc \notin {"ReceiveRequest", "ParseBody", "ValidateQuery"}
     /\ q_event \in NoQueryFieldEvents)
        => /\ q_pc = "RespondError"
           /\ response.statusCode = 400
           /\ response.body = ErrorBody("Missing query")
           /\ calls = <<>>

\* the texts joined in rank order with a blank line, built from the last one
RECURSIVE BlankLineJoined(_)
BlankLineJoined(ts) ==
    IF ts = <<>> THEN <<>>
    ELSE IF Len(ts) = 1 THEN ts[1]
    ELSE BlankLineJoined(SubSeq(ts, 1, Len(ts) - 1)) \o <<"\n\n">> \o ts[Len(ts)]

\* the upstream calls made when the handler is at each stage
CallsAt(pc) ==
    IF pc \in {"ReceiveRequest", "ParseBody", "ValidateQuery", "Embed", "RespondError"}
    THEN <<>>
    ELSE IF pc = "Search" THEN <<"embed_text">>
    ELSE IF pc \in {"Assemble", "Generate"} THEN <<"embed_text", "search_embeddings">>
    ELSE <<"embed_text", "search_embeddings", "generate_answer">>

\* C3: for a body that is a JSON object with a non-empty query and upstream
\* calls that succeed, the handler runs Embed, Search, Assemble, Generate once
\* each in that order (Search gets the vector Embed returned, the context is the
\* retrieved texts joined in rank order with a blank line, Generate gets the
\* original query and that context) and answers 200 with {"answer": a}, a being
\* the text Generate returned.
C3_SuccessPath ==
    /\ (q_pc # "raised" => calls = CallsAt(q_pc))
    /\ (q_pc = "raised" => \E n \in 0..3 : calls = SubSeq(CallsAt("Respond"), 1, n))
    /\ (/\ q_Answered
        /\ q_event.hasBody /\ ~q_event.isNone
        /\ q_event.body \in ValidQueryBodies)
           => \/ q_pc = "RespondSuccess"
              \/ q_pc = "raised" /\ q_error \in {"BedrockError", "HTTPError"}
    /\ q_pc = "RespondSuccess"
           => /\ q_event.hasBody /\ ~q_event.isNone
              /\ q_event.body \in ValidQueryBodies
              /\ embedArg = ExpectedQuery(q_event.body)
              /\ searchArg.vector = q_embedding
              /\ context_str = BlankLineJoined(chunks)
              /\ genArgs.question = ExpectedQuery(q_event.body)
              /\ genArgs.context = BlankLineJoined(chunks)
              /\ response.statusCode = 200
              /\ response.body =
                     <<LBrace, TStr(<<"answer">>), Colon, TStr(answer), RBrace>>

C3_Witness ==
    /\ q_pc = "RespondSuccess"
    /\ q_event.body = BodyQueryHi
    /\ q_embedding = SomeVec(<<1>>)
    /\ chunks = << <<"ctx">>, <<"w">> >>
    /\ context_str = <<"ctx", "\n\n", "w">>
    /\ answer = <<"answer">>
    /\ response.body = <<LBrace, TStr(<<"answer">>), Colon, TStr(<<"answer">>), RBrace>>

\* C9: embed_text fails when the response payload lacks the embedding field, so
\* the query handler never issues a search with a missing (null) vector.
C9_NoSearchWithNullVector ==
    (\E i \in 1..Len(calls) : calls[i] = "search_embeddings")
        => ~searchArg.vector.none

-----------------------------------------------------------------------------
(* Properties of the ingestion handler (SpecIngest) *)

NumRecords(ev) == IF ev.hasRecords THEN Len(ev.Records) ELSE 0

\* the calls download_file, extract_text, embed_text, index_embedding for
\* records 1..n, one record after the other
RECURSIVE ExpectedLog(_)
ExpectedLog(n) ==
    IF n = 0 THEN <<>>
    ELSE ExpectedLog(n - 1)
           \o <<LogEntry("download", n), LogEntry("extract", n),
                LogEntry("embed", n), LogEntry("put", n)>>

\* C4: for a batch of n records whose steps all succeed, the handler processes
\* the records one after another in batch order, with exactly one download and
\* one index write per record, the write for record i before the download for
\* record i+1, and returns a status object that counts n records (0 for an empty
\* or absent Records list).
C4_PerRecordProcessing ==
    i_pc = "returned"
        => /\ i_log = ExpectedLog(NumRecords(i_event))
           /\ i_result.status = "processed"
           /\ i_result.records = NumRecords(i_event)

C4_Witness ==
    /\ i_pc = "returned"
    /\ NumRecords(i_event) = 2
    /\ i_log = ExpectedLog(2)
    /\ i_result.records = 2

\* C5: a record whose object is neither .pdf nor .docx is skipped: the
\* unsupported-file-type error does not end the invocation, and the handler
\* still processes the later records and returns its status object.
C5_UnsupportedIsSkipped ==
    ~(i_pc = "raised" /\ i_error = "ValueError: Unsupported file type")

CeilDiv(n, c) == (n + c - 1) \div c

\* whitespace-delimited tokens of a text
TokenCount(t) == Cardinality({i \in 1..Len(t) : t[i] \notin {"\n", " "}})

PutsFor(n) ==
    Cardinality({i \in 1..Len(i_log) :
                    i_log[i].rec = n /\ i_log[i].op = "put"})

\* C6: a text of N tokens is ingested as ceil(N/500) chunks (none for an empty
\* text), one index record per chunk, the record of chunk i stored under
\* {storage-key}-{i}.
C6_ChunkedWrites ==
    (i_pc = "for" /\ i_pos > 0 /\ lastPut.valid)
        => /\ PutsFor(i_pos) = CeilDiv(TokenCount(text), 500)
           /\ \E base \in {key, sanitize_id(key)} : lastPut.id = base \o <<"-", "0">>

\* C7: ingesting an object key again writes to the ids of the first time: the
\* set of ids in the index is unchanged by the repeat, no two records share an
\* id, and the record under the id is the one of the latest ingestion.
C7_ReingestOverwrites ==
    /\ \A id \in Ids(index) : Cardinality(DocsWithId(index, id)) = 1
    /\ (lastPut.valid /\ lastPut.accepted)
          => /\ \A p \in firstId : p[1] = lastPut.key => p[2] = lastPut.id
             /\ (lastPut.id \in lastPut.idsBefore => Ids(index) = lastPut.idsBefore)
             /\ DocsWithId(index, lastPut.id) =
                    {[id |-> lastPut.id, vector |-> lastPut.vector,
                      text |-> lastPut.text]}

C7_Witness ==
    /\ lastPut.valid /\ lastPut.accepted
    /\ lastPut.key = KeyDocx
    /\ lastPut.id \in lastPut.idsBefore
    /\ lastPut.text = <<"w">>
    /\ Cardinality(index) = 2

\* two keys that are equal up to "/" versus "_"
SameModSlash(k1, k2) ==
    /\ Len(k1) = Len(k2)
    /\ \A i \in 1..Len(k1) : k1[i] = k2[i] \/ {k1[i], k2[i]} \subseteq {"/", "_"}

IngestedKeys == {p[1] : p \in firstId}

\* C10 as claimed: the ids of two different keys differ (also when the keys
\* differ only in "/" versus "_"), the record of a key is never overwritten by
\* another key's ingestion, and the index holds one record per ingested key.
C10_DistinctKeysDistinctRecords ==
    /\ \A p1, p2 \in firstId : p1[1] # p2[1] => p1[2] # p2[2]
    /\ \A p \in firstId : <<p[2], p[1]>> \in writer
    /\ Cardinality(index) = Cardinality(IngestedKeys)

\* C10 amended: the ids of two keys differ exactly when the keys differ other
\* than in "/" versus "_"; the record under a key's id was last written by a key
\* equal to it up to "/" versus "_"; the index holds one record per class of
\* ingested keys equal up to "/" versus "_".
C10_DistinctSanitizedKeys ==
    /\ \A p1, p2 \in firstId : SameModSlash(p1[1], p2[1]) <=> p1[2] = p2[2]
    /\ \A p \in firstId : \E w \in writer : w[1] = p[2] /\ SameModSlash(w[2], p[1])
    /\ Cardinality(index) =
           Cardinality({{k2 \in IngestedKeys : SameModSlash(k, k2)} : k \in IngestedKeys})

C10_Witness ==
    /\ IngestedKeys = {KeySlash, KeyUnder, KeyDocx}
    /\ Cardinality(index) = 2
    /\ lastPut.valid /\ lastPut.accepted /\ lastPut.key = KeyUnder

-----------------------------------------------------------------------------
(* Properties of sanitize_id and index_embedding (SpecSanitize) *)

\* C8: sanitize_id(s) is s with every "/" replaced by "_" and every other
\* character in place; sanitize_id("folder/file.pdf") = "folder_file.pdf";
\* sanitize_id(s) = s when s has no "/"; sanitizing twice is sanitizing once;
\* index_embedding writes under sanitize_id of the id it is given.
C8_SanitizeId ==
    s_pc # "idle"
        => /\ Len(s_out) = Len(s_id)
           /\ \A i \in 1..Len(s_id) : s_out[i] = IF s_id[i] = "/" THEN "_" ELSE s_id[i]
           /\ "/" \notin Range(s_out)
           /\ ("/" \notin Range(s_id) => s_out = s_id)
           /\ sanitize_id(s_out) = s_out
           /\ (s_id = FolderFilePdf
                 => s_out = <<"f", "o", "l", "d", "e", "r", "_",
                              "f", "i", "l", "e", ".", "p", "d", "f">>)
           /\ (s_pc = "indexed"
                 => /\ Ids(index) = {s_out}
                    /\ Cardinality(index) = 1)

C8_Witness ==
    /\ s_pc = "indexed"
    /\ s_id = <<"/", "a", "/", "_">>
    /\ Ids(index) = {<<"_", "a", "_", "_">>}


====
